---- MODULE Spec2Model ----
(***************************************************************************)
(* Three-way mixing valve controller (ThreeWayValve) driving a stepper.    *)
(*                                                                         *)
(* Numbers.  Actuator coordinates are int32_t in the source and integers   *)
(* here (the coordinates used stay far from the int32 limits).  C++ float  *)
(* values are modelled as exact fractions <<n, d>> in lowest terms with    *)
(* d > 0; the IEEE special values a division by zero produces are kept as  *)
(* <<1, 0>> (+inf), <<-1, 0>> (-inf) and <<0, 0>> (NaN).  Rounding of      *)
(* float arithmetic to 24 bits is not modelled.                            *)
(***************************************************************************)
EXTENDS Integers, Sequences, FiniteSets, TLC

VARIABLES
  pos_closed_,       \* ThreeWayValve::pos_closed_
  pos_open_,         \* ThreeWayValve::pos_open_
  pos_block_,        \* ThreeWayValve::pos_block_
  pos_all_open_,     \* ThreeWayValve::pos_all_open_
  mixer_curve_,      \* ThreeWayValve::mixer_curve_, a sequence of CurvePoint
  current_position,  \* Stepper::current_position
  target_position,   \* Stepper::target_position
  call,              \* the operation that ran in the last step, with its payload
  issued,            \* the arguments of the set_target calls that operation made
  ret                \* the values get_valve_state returned during that operation

vars == <<pos_closed_, pos_open_, pos_block_, pos_all_open_, mixer_curve_,
          current_position, target_position, call, issued, ret>>

----------------------------------------------------------------------------
(* Bounds of the model *)

\* longest curve add_curve_point may build under Spec and SpecFlow
MaxCurveLen == 2

\* longest curve add_curve_point may build under SpecCurve
MaxKnots == 3

----------------------------------------------------------------------------
(* float arithmetic *)

Abs(a) == IF a < 0 THEN -a ELSE a

Sign(a) == IF a < 0 THEN -1 ELSE IF a > 0 THEN 1 ELSE 0

RECURSIVE Gcd(_, _)
Gcd(a, b) == IF b = 0 THEN a ELSE Gcd(b, a % b)

\* the float n/d; d = 0 gives +inf, -inf or NaN as IEEE division does
Rat(n, d) ==
  IF d = 0 THEN <<Sign(n), 0>>
  ELSE LET g == Gcd(Abs(n), Abs(d))
           s == IF d < 0 THEN -1 ELSE 1
       IN  <<(s * n) \div g, (s * d) \div g>>

\* float(i) of an integer i
FromInt(i) == <<i, 1>>

NaN == <<0, 0>>

IsNaN(a) == a = NaN

IsFinite(a) == a[2] # 0

FAdd(a, b) ==
  IF IsNaN(a) \/ IsNaN(b) THEN NaN
  ELSE IF a[2] = 0 /\ b[2] = 0 THEN (IF a = b THEN a ELSE NaN)
  ELSE Rat(a[1] * b[2] + b[1] * a[2], a[2] * b[2])

FNeg(a) == <<-a[1], a[2]>>

FSub(a, b) == FAdd(a, FNeg(b))

FMul(a, b) == Rat(a[1] * b[1], a[2] * b[2])

FDiv(a, b) ==
  IF IsNaN(a) \/ IsNaN(b) THEN NaN
  ELSE IF a[2] = 0 /\ b[2] = 0 THEN NaN
  ELSE IF b[2] = 0 THEN <<0, 1>>
  ELSE IF b[1] = 0 THEN <<Sign(a[1]), 0>>
  ELSE Rat(a[1] * b[2], a[2] * b[1])

\* comparisons; every comparison with NaN is false
FLt(a, b) ==
  IF IsNaN(a) \/ IsNaN(b) THEN FALSE
  ELSE IF a[2] = 0 /\ b[2] = 0 THEN a[1] < b[1]
  ELSE a[1] * b[2] < b[1] * a[2]

FLe(a, b) == ~IsNaN(a) /\ ~IsNaN(b) /\ (a = b \/ FLt(a, b))

FGt(a, b) == FLt(b, a)

FGe(a, b) == FLe(b, a)

\* Trunc rounding down (std::floor) instead of toward zero
Trunc_floor(f) == f[1] \div f[2]

\* int32_t(f) of a finite float: truncation toward zero
Trunc(f) == IF f[1] >= 0 THEN f[1] \div f[2] ELSE -((-f[1]) \div f[2])

\* int32_t(f): the conversion of a value that is no number, or has no int32
\* image, is undefined in C++ and may yield anything
TruncOutcomes(f) ==
  IF IsFinite(f) THEN {Trunc(f)} ELSE {-2147483647 - 1, 0, 2147483647}

Zero == FromInt(0)

One == FromInt(1)

Half == Rat(1, 2)

----------------------------------------------------------------------------
(* The calibration curve: get_flow and get_pos *)

CurvePoint(x, y) == [x |-> x, y |-> y]

\* the for loop of get_flow from index i on: the first segment holding x
RECURSIVE get_flow_scan(_, _, _)
get_flow_scan(x, curve, i) ==
  IF i > Len(curve) - 1 THEN curve[Len(curve)].y
  ELSE LET x0 == curve[i].x
           x1 == curve[i + 1].x
           y0 == curve[i].y
           y1 == curve[i + 1].y
       IN  IF FGe(x, x0) /\ FLe(x, x1)
           THEN LET t == FDiv(FSub(x, x0), FSub(x1, x0))
                IN  FAdd(y0, FMul(t, FSub(y1, y0)))
           ELSE get_flow_scan(x, curve, i + 1)

\* get_flow returning the first point's y above the last point
get_flow_high_as_low(x, curve) ==
  IF curve = <<>> THEN x
  ELSE IF FLe(x, curve[1].x) THEN curve[1].y
  ELSE IF FGe(x, curve[Len(curve)].x) THEN curve[1].y
  ELSE get_flow_scan(x, curve, 1)

get_flow(x, curve) ==
  IF curve = <<>> THEN x
  ELSE IF FLe(x, curve[1].x) THEN curve[1].y
  ELSE IF FGe(x, curve[Len(curve)].x) THEN curve[Len(curve)].y
  ELSE get_flow_scan(x, curve, 1)

RECURSIVE get_pos_scan(_, _, _)
get_pos_scan(y, curve, i) ==
  IF i > Len(curve) - 1 THEN curve[Len(curve)].x
  ELSE LET y0 == curve[i].y
           y1 == curve[i + 1].y
           x0 == curve[i].x
           x1 == curve[i + 1].x
       IN  IF FGe(y, y0) /\ FLe(y, y1)
           THEN LET t == FDiv(FSub(y, y0), FSub(y1, y0))
                IN  FAdd(x0, FMul(t, FSub(x1, x0)))
           ELSE get_pos_scan(y, curve, i + 1)

\* get_pos with the loop starting at the second segment
get_pos_skip_first(y, curve) ==
  IF curve = <<>> THEN y
  ELSE IF FLe(y, curve[1].y) THEN curve[1].x
  ELSE IF FGe(y, curve[Len(curve)].y) THEN curve[Len(curve)].x
  ELSE get_pos_scan(y, curve, 2)

get_pos(y, curve) ==
  IF curve = <<>> THEN y
  ELSE IF FLe(y, curve[1].y) THEN curve[1].x
  ELSE IF FGe(y, curve[Len(curve)].y) THEN curve[Len(curve)].x
  ELSE get_pos_scan(y, curve, 1)

\* the divisors get_flow evaluates for x: x1 - x0 of the segment its loop
\* interpolates in, none when it returns before or past the loop
RECURSIVE get_flow_divisor_scan(_, _, _)
get_flow_divisor_scan(x, curve, i) ==
  IF i > Len(curve) - 1 THEN {}
  ELSE IF FGe(x, curve[i].x) /\ FLe(x, curve[i + 1].x)
       THEN {FSub(curve[i + 1].x, curve[i].x)}
       ELSE get_flow_divisor_scan(x, curve, i + 1)

get_flow_divisors(x, curve) ==
  IF curve = <<>> THEN {}
  ELSE IF FLe(x, curve[1].x) THEN {}
  ELSE IF FGe(x, curve[Len(curve)].x) THEN {}
  ELSE get_flow_divisor_scan(x, curve, 1)

\* the divisors get_pos evaluates for y
RECURSIVE get_pos_divisor_scan(_, _, _)
get_pos_divisor_scan(y, curve, i) ==
  IF i > Len(curve) - 1 THEN {}
  ELSE IF FGe(y, curve[i].y) /\ FLe(y, curve[i + 1].y)
       THEN {FSub(curve[i + 1].y, curve[i].y)}
       ELSE get_pos_divisor_scan(y, curve, i + 1)

get_pos_divisors(y, curve) ==
  IF curve = <<>> THEN {}
  ELSE IF FLe(y, curve[1].y) THEN {}
  ELSE IF FGe(y, curve[Len(curve)].y) THEN {}
  ELSE get_pos_divisor_scan(y, curve, 1)

----------------------------------------------------------------------------
(* The valve controller: control_valve, get_valve_state, control *)

\* Clamp01 without the clamp at 0
Clamp01_upper_only(flow) == IF FGt(flow, One) THEN One ELSE flow

\* control_valve's two clamps of the requested flow
Clamp01(flow) ==
  IF FLt(flow, Zero) THEN Zero ELSE IF FGt(flow, One) THEN One ELSE flow

\* pos_closed_ + position * (pos_open_ - pos_closed_), still a float
ScaleToTarget(position, closed, open) ==
  FAdd(FromInt(closed), FMul(position, FromInt(open - closed)))

\* the values control_valve(flow) may hand to set_target
control_valve_targets(flow, closed, open, curve) ==
  TruncOutcomes(ScaleToTarget(get_pos(Clamp01(flow), curve), closed, open))

\* Tolerance without the minimum of 1
Tolerance_no_minimum(range) ==
  Trunc(FMul(FromInt(Abs(range)), Rat(1, 1000)))

\* tol of get_valve_state: 0.1 % of the range, at least 1
Tolerance(range) ==
  LET tol == Trunc(FMul(FromInt(Abs(range)), Rat(1, 1000)))
  IN  IF tol < 1 THEN 1 ELSE tol

\* get_valve_state's clamp of the normalized position
ClampPosition(position) ==
  IF FLt(position, Zero) THEN Zero
  ELSE IF FGt(position, One) THEN One
  ELSE position

\* float(cur - pos_closed_) / float(range)
NormalizedPosition(cur, closed, open) ==
  FDiv(FromInt(cur - closed), FromInt(open - closed))

get_valve_state(cur, closed, open, curve) ==
  LET tol == Tolerance(open - closed)
  IN  IF Abs(cur - closed) < tol THEN Zero
      ELSE IF Abs(cur - open) < tol THEN One
      ELSE get_flow(ClampPosition(NormalizedPosition(cur, closed, open)), curve)

\* the divisors get_valve_state evaluates: float(range) unless it returned at
\* one of the two tolerance tests
get_valve_state_divisors(cur, closed, open) ==
  LET tol == Tolerance(open - closed)
  IN  IF Abs(cur - closed) < tol THEN {}
      ELSE IF Abs(cur - open) < tol THEN {}
      ELSE {open - closed}

\* ToggleFlow with <= for <: a flow of exactly 0.5 toggles to open
ToggleFlow_le(cur) == IF FLe(cur, Half) THEN One ELSE Zero

\* the flow a Toggle drives to, from the flow it read
ToggleFlow(cur) == IF FLt(cur, Half) THEN One ELSE Zero

\* ControlBranch with the toggle test moved before the stop test
ControlBranch_toggle_first(c) ==
  IF c.toggle # <<>> THEN "toggle"
  ELSE IF c.stop THEN "stop"
  ELSE IF c.position # <<>> THEN "position"
  ELSE "default"

\* the branch of control() a call takes
ControlBranch(c) ==
  IF c.stop THEN "stop"
  ELSE IF c.toggle # <<>> THEN "toggle"
  ELSE IF c.position # <<>> THEN "position"
  ELSE "default"

\* ParkTarget taking the all-open coordinate
ParkTarget_all_open == pos_all_open_

\* park_valve's and open_all_valve's targets
ParkTarget == pos_block_

OpenAllTarget == pos_all_open_

----------------------------------------------------------------------------
(* Inputs *)

\* a ValveCall: stop_, toggle_ and position_ (an empty sequence is nullopt)
ValveCall(stop, toggle, position) ==
  [op |-> "control", stop |-> stop, toggle |-> toggle, position |-> position]

\* the record of an operation that is no control() call
Op(name, position) ==
  [op |-> name, stop |-> FALSE, toggle |-> <<>>, position |-> position]

NoCall == Op("none", <<>>)

\* coordinates the configuration setters are called with
ClosedCoords == {-180, 100}

OpenCoords == {-270, 10000}

BlockCoords == {-90}

AllOpenCoords == {-360}

\* points add_curve_point is called with
CurvePts ==
  { CurvePoint(Zero, Zero), CurvePoint(One, One),
    CurvePoint(Half, Rat(1, 4)), CurvePoint(One, FromInt(2)) }

\* flows control_valve is called with
Flows == { Rat(-1, 2), Zero, Rat(1, 4), One, Rat(3, 2) }

\* the ValveCalls control is called with
ValveCalls ==
  { ValveCall(s, t, p) :
      s \in BOOLEAN, t \in {<<>>, <<TRUE>>}, p \in {<<>>, <<Rat(1, 4)>>} }

\* points add_curve_point is called with where only the curve is exercised
CurveKnots ==
  { CurvePoint(Zero, Zero), CurvePoint(Half, Rat(1, 4)), CurvePoint(One, One),
    CurvePoint(Half, One), CurvePoint(One, Rat(1, 4)) }

\* number of equal steps the monotonicity loops cut the interval 0..1 into
SampleSteps == 20

\* the round-trip loops: i * 0.1f for i up to 10
RoundTripSteps == 10

Samples(n) == { Rat(k, n) : k \in 0..n }

\* positions the actuator may be found at while it moves
Positions == {5, 15, 9995}

----------------------------------------------------------------------------
(* State after construction *)

Init ==
  /\ pos_closed_ = 0
  /\ pos_open_ = 0
  /\ pos_block_ = 0
  /\ pos_all_open_ = 0
  /\ mixer_curve_ = <<>>
  /\ current_position = 0
  /\ target_position = 0
  /\ call = NoCall
  /\ issued = <<>>
  /\ ret = <<>>

----------------------------------------------------------------------------
(* Operations *)

config == <<pos_closed_, pos_open_, pos_block_, pos_all_open_, mixer_curve_>>

\* a step that is no command: nothing is recorded
Quiet == call' = NoCall /\ issued' = <<>> /\ ret' = <<>>

set_pos_closed(p) ==
  /\ pos_closed_' = p
  /\ Quiet
  /\ UNCHANGED <<pos_open_, pos_block_, pos_all_open_, mixer_curve_,
                 current_position, target_position>>

set_pos_open(p) ==
  /\ pos_open_' = p
  /\ Quiet
  /\ UNCHANGED <<pos_closed_, pos_block_, pos_all_open_, mixer_curve_,
                 current_position, target_position>>

set_pos_block(p) ==
  /\ pos_block_' = p
  /\ Quiet
  /\ UNCHANGED <<pos_closed_, pos_open_, pos_all_open_, mixer_curve_,
                 current_position, target_position>>

set_pos_all_open(p) ==
  /\ pos_all_open_' = p
  /\ Quiet
  /\ UNCHANGED <<pos_closed_, pos_open_, pos_block_, mixer_curve_,
                 current_position, target_position>>

add_curve_point(pt) ==
  /\ mixer_curve_' = Append(mixer_curve_, pt)
  /\ Quiet
  /\ UNCHANGED <<pos_closed_, pos_open_, pos_block_, pos_all_open_,
                 current_position, target_position>>

\* Stepper::set_target(t), as the last thing an operation recorded in c does
set_target(c, t, read) ==
  /\ target_position' = t
  /\ issued' = <<t>>
  /\ call' = c
  /\ ret' = read
  /\ UNCHANGED <<config, current_position>>

control_valve(flow) ==
  \E t \in control_valve_targets(flow, pos_closed_, pos_open_, mixer_curve_) :
    set_target(Op("control_valve", <<flow>>), t, <<>>)

read_valve_state ==
  /\ ret' = <<get_valve_state(current_position, pos_closed_, pos_open_,
                              mixer_curve_)>>
  /\ call' = Op("get_valve_state", <<>>)
  /\ issued' = <<>>
  /\ UNCHANGED <<config, current_position, target_position>>

park_valve == set_target(Op("park_valve", <<>>), ParkTarget, <<>>)

open_all_valve == set_target(Op("open_all_valve", <<>>), OpenAllTarget, <<>>)

\* ThreeWayValveBlockAction::play and ThreeWayValveOpenAllAction::play
BlockAction_play == set_target(Op("block_action", <<>>), ParkTarget, <<>>)

OpenAllAction_play ==
  set_target(Op("open_all_action", <<>>), OpenAllTarget, <<>>)

\* control() with the Toggle reading the flow at the pending target in place
\* of current_position
control_reads_target(c) ==
  LET branch == ControlBranch(c)
      cur == get_valve_state(target_position, pos_closed_, pos_open_,
                             mixer_curve_)
      flow == CASE branch = "toggle" -> ToggleFlow(cur)
                [] branch = "position" -> c.position[1]
                [] OTHER -> Zero
  IN  IF branch = "stop"
      THEN /\ call' = c
           /\ issued' = <<>>
           /\ ret' = <<>>
           /\ UNCHANGED <<config, current_position, target_position>>
      ELSE \E t \in control_valve_targets(flow, pos_closed_, pos_open_,
                                          mixer_curve_) :
             set_target(c, t, IF branch = "toggle" THEN <<cur>> ELSE <<>>)

control(c) ==
  LET branch == ControlBranch(c)
      cur == get_valve_state(current_position, pos_closed_, pos_open_,
                             mixer_curve_)
      flow == CASE branch = "toggle" -> ToggleFlow(cur)
                [] branch = "position" -> c.position[1]
                [] OTHER -> Zero
  IN  IF branch = "stop"
      THEN /\ call' = c
           /\ issued' = <<>>
           /\ ret' = <<>>
           /\ UNCHANGED <<config, current_position, target_position>>
      ELSE \E t \in control_valve_targets(flow, pos_closed_, pos_open_,
                                          mixer_curve_) :
             set_target(c, t, IF branch = "toggle" THEN <<cur>> ELSE <<>>)

\* the actuator, outside the controller: it reaches its target or is
\* somewhere on the way
stepper_move(positions) ==
  /\ current_position' \in {target_position} \cup positions
  /\ current_position' # current_position
  /\ Quiet
  /\ UNCHANGED <<config, target_position>>
\* the loops of the curve tests: a round trip through both functions, and
\* two successive samples of one function
pos_flow_pos(p) ==
  LET flow == get_flow(p, mixer_curve_)
  IN  /\ call' = Op("pos_flow_pos", <<p>>)
      /\ ret' = <<flow, get_pos(flow, mixer_curve_)>>
      /\ issued' = <<>>
      /\ UNCHANGED <<config, current_position, target_position>>

flow_pos_flow(f) ==
  LET pos == get_pos(f, mixer_curve_)
  IN  /\ call' = Op("flow_pos_flow", <<f>>)
      /\ ret' = <<pos, get_flow(pos, mixer_curve_)>>
      /\ issued' = <<>>
      /\ UNCHANGED <<config, current_position, target_position>>

get_flow_step(i) ==
  /\ call' = Op("get_flow_step", <<Rat(i, SampleSteps)>>)
  /\ ret' = <<get_flow(Rat(i - 1, SampleSteps), mixer_curve_),
              get_flow(Rat(i, SampleSteps), mixer_curve_)>>
  /\ issued' = <<>>
  /\ UNCHANGED <<config, current_position, target_position>>

get_pos_step(i) ==
  /\ call' = Op("get_pos_step", <<Rat(i, SampleSteps)>>)
  /\ ret' = <<get_pos(Rat(i - 1, SampleSteps), mixer_curve_),
              get_pos(Rat(i, SampleSteps), mixer_curve_)>>
  /\ issued' = <<>>
  /\ UNCHANGED <<config, current_position, target_position>>

----------------------------------------------------------------------------
(* Specifications *)

\* the controller under commands, with the fixture's coordinates
Next ==
  \/ set_pos_closed(-180)
  \/ set_pos_open(-270)
  \/ \E p \in BlockCoords : set_pos_block(p)
  \/ \E p \in AllOpenCoords : set_pos_all_open(p)
  \/ \E pt \in CurvePts \ {CurvePoint(One, FromInt(2))} :
       Len(mixer_curve_) < MaxCurveLen /\ add_curve_point(pt)
  \/ control_valve(Half)
  \/ read_valve_state
  \/ park_valve
  \/ open_all_valve
  \/ BlockAction_play
  \/ OpenAllAction_play
  \/ \E c \in ValveCalls : control(c)
  \/ stepper_move({-225})

Spec == Init /\ [][Next]_vars

\* control_valve and get_valve_state over the coordinates and the curves
NextFlow ==
  \/ \E p \in ClosedCoords : set_pos_closed(p)
  \/ \E p \in OpenCoords : set_pos_open(p)
  \/ \E pt \in CurvePts :
       Len(mixer_curve_) < MaxCurveLen /\ add_curve_point(pt)
  \/ \E f \in Flows : control_valve(f)
  \/ read_valve_state
  \/ stepper_move(Positions)

SpecFlow == Init /\ [][NextFlow]_vars

\* get_flow and get_pos over the curves add_curve_point builds
NextCurve ==
  \/ \E pt \in CurveKnots :
       Len(mixer_curve_) < MaxKnots /\ add_curve_point(pt)
  \/ \E p \in Samples(RoundTripSteps)
            \cup { mixer_curve_[i].x : i \in 1..Len(mixer_curve_) } :
       pos_flow_pos(p)
  \/ \E f \in Samples(RoundTripSteps)
            \cup { mixer_curve_[i].y : i \in 1..Len(mixer_curve_) } :
       flow_pos_flow(f)
  \/ \E i \in 1..SampleSteps : get_flow_step(i)
  \/ \E i \in 1..SampleSteps : get_pos_step(i)

SpecCurve == Init /\ [][NextCurve]_vars

----------------------------------------------------------------------------
(* Properties of the command dispatcher, checked under Spec *)

\* the flow get_valve_state reads in the current state
ReadFlow ==
  get_valve_state(current_position, pos_closed_, pos_open_, mixer_curve_)

\* what set_flow(flow) would issue in the current configuration
SetFlowIssues(flow) ==
  { <<t>> : t \in control_valve_targets(flow, pos_closed_, pos_open_,
                                        mixer_curve_) }

IsControl == call.op = "control"

IsToggle == IsControl /\ ~call.stop /\ call.toggle # <<>>

\* the curve sends flow 0 to position 0 and flow 1 to position 1
MapsEnds(curve) == get_pos(Zero, curve) = Zero /\ get_pos(One, curve) = One

\* a Toggle reads the flow at current_position and issues what set_flow(1.0)
\* issues when that flow is < 0.5, what set_flow(0.0) issues otherwise
ToggleContract ==
  IsToggle =>
    /\ ret = <<ReadFlow>>
    /\ FLt(ReadFlow, Half) => issued \in SetFlowIssues(One)
    /\ ~FLt(ReadFlow, Half) => issued \in SetFlowIssues(Zero)

\* a step that is a Toggle taken with the actuator resting at its target
ToggleAtTarget ==
  /\ call'.op = "control" /\ ~call'.stop /\ call'.toggle # <<>>
  /\ current_position = target_position

\* the Toggle of this step commands open or closed, and the other one of
\* the two when the actuator rests at one of them
CommandsOther ==
  /\ target_position' \in {pos_open_, pos_closed_}
  /\ current_position = pos_closed_ => target_position' = pos_open_
  /\ (current_position = pos_open_ /\ pos_open_ # pos_closed_)
       => target_position' = pos_closed_

\* C1 as stated: the Toggle contract, and successive Toggles, each taken once
\* the actuator has reached the commanded target, alternate between the open
\* and the closed coordinate, whatever the curve
C1_ToggleAlternatesAnyCurve ==
  []ToggleContract /\ [][ToggleAtTarget => CommandsOther]_vars

\* C1 amended: the Toggle contract holds for every curve; successive Toggles,
\* each taken once the actuator has reached the commanded target, alternate
\* between the open and the closed coordinate when the curve sends flow 0 to
\* position 0 and flow 1 to position 1
C1_ToggleAlternates ==
  []ToggleContract
  /\ [][(ToggleAtTarget /\ MapsEnds(mixer_curve_)) => CommandsOther]_vars

\* a Toggle taken at the open coordinate, reached after an earlier command,
\* under the curve (0,0),(1,1): it commands the closed coordinate
C1_Witness ==
  /\ IsToggle
  /\ mixer_curve_ = <<CurvePoint(Zero, Zero), CurvePoint(One, One)>>
  /\ pos_closed_ = -180 /\ pos_open_ = -270
  /\ current_position = -270
  /\ ret = <<One>>
  /\ issued = <<-180>>

\* C2: a control call takes exactly one branch in the order stop, toggle,
\* position, default: with stop set it issues no set_target and the target
\* stays, whatever else the call carries; with a toggle it issues what the
\* Toggle issues, whatever position it carries; with only a position it issues
\* what set_flow(position) issues; with nothing it issues what set_flow(0.0)
\* issues; it never issues more than one set_target
C2_OneBranchByPriority ==
  /\ [](IsControl =>
          /\ Len(issued) <= 1
          /\ call.stop => issued = <<>>
          /\ IsToggle => issued \in SetFlowIssues(IF FLt(ReadFlow, Half)
                                                  THEN One ELSE Zero)
          /\ (~call.stop /\ call.toggle = <<>> /\ call.position # <<>>)
               => issued \in SetFlowIssues(call.position[1])
          /\ (~call.stop /\ call.toggle = <<>> /\ call.position = <<>>)
               => issued \in SetFlowIssues(Zero))
  /\ [][(call'.op = "control" /\ call'.stop)
          => target_position' = target_position]_vars

\* a call with stop, toggle and position all present has run while the
\* actuator's target differs from what a Toggle or the position would command
C2_Witness ==
  /\ IsControl /\ call.stop /\ call.toggle # <<>> /\ call.position # <<>>
  /\ issued = <<>>
  /\ pos_closed_ = -180 /\ pos_open_ = -270
  /\ target_position = -90
  /\ <<target_position>> \notin SetFlowIssues(ToggleFlow(ReadFlow))
  /\ <<target_position>> \notin SetFlowIssues(call.position[1])

\* C7: park_valve and the block action issue exactly pos_block_, and
\* open_all_valve and the open-all action exactly pos_all_open_, in every
\* reachable configuration, position and target
C7_ParkAndOpenAll ==
  /\ call.op \in {"park_valve", "block_action"}
       => issued = <<pos_block_>> /\ target_position = pos_block_
  /\ call.op \in {"open_all_valve", "open_all_action"}
       => issued = <<pos_all_open_>> /\ target_position = pos_all_open_

\* the block action has run after the actuator reached the open coordinate
\* under a curve, with the blocked coordinate set to -90
C7_Witness ==
  /\ call.op = "block_action"
  /\ pos_block_ = -90 /\ pos_all_open_ = -360
  /\ mixer_curve_ # <<>>
  /\ current_position = -270
  /\ issued = <<-90>>
  /\ target_position = -90

----------------------------------------------------------------------------
(* Properties of control_valve and get_valve_state, checked under SpecFlow *)

IsSetFlow == call.op = "control_valve"

IsRead == call.op = "get_valve_state"

\* the flow the last control_valve call was given
GivenFlow == call.position[1]

\* C3: control_valve with a flow below 0 issues exactly what set_flow(0)
\* issues, with a flow above 1 exactly what set_flow(1) issues, for every
\* configuration and curve; it always issues one set_target
C3_OutOfRangeFlowClamped ==
  IsSetFlow =>
    /\ Len(issued) = 1
    /\ FLt(GivenFlow, Zero) => issued \in SetFlowIssues(Zero)
    /\ FGt(GivenFlow, One) => issued \in SetFlowIssues(One)

\* control_valve(-0.5) has run with the empty curve, where only its own clamp
\* keeps the target at closed
C3_Witness ==
  /\ IsSetFlow
  /\ GivenFlow = Rat(-1, 2)
  /\ mixer_curve_ = <<>>
  /\ pos_closed_ = -180 /\ pos_open_ = -270
  /\ issued = <<-180>>

\* the clamp of a flow to [0, 1], written out
ClampedFlow(flow) ==
  IF FLt(flow, Zero) THEN Zero ELSE IF FLt(One, flow) THEN One ELSE flow

\* closed + p * (open - closed) for the flow given, p = pos_at(clamp(flow))
ScaledPosition ==
  LET p == get_pos(ClampedFlow(GivenFlow), mixer_curve_)
  IN  FAdd(FromInt(pos_closed_),
           FMul(p, FromInt(pos_open_ - pos_closed_)))

\* t is v with its fraction dropped: between 0 and v, less than 1 from v
IsTruncationOf(t, v) ==
  IF FGe(v, Zero)
  THEN FLe(FromInt(t), v) /\ FLt(v, FromInt(t + 1))
  ELSE FGe(FromInt(t), v) /\ FGt(v, FromInt(t - 1))

\* the curve runs from (0,0) to (1,1)
RunsFromZeroToOne(curve) ==
  /\ curve # <<>>
  /\ curve[1] = CurvePoint(Zero, Zero)
  /\ curve[Len(curve)] = CurvePoint(One, One)

\* C4: control_valve issues one set_target, whose argument is
\* closed + p * (open - closed) truncated toward zero, in either orientation;
\* with a curve running from (0,0) to (1,1), flow 0 commands exactly closed
\* and flow 1 exactly open
C4_TargetIsTruncatedScale ==
  IsSetFlow =>
    /\ Len(issued) = 1
    /\ IsTruncationOf(issued[1], ScaledPosition)
    /\ target_position = issued[1]
    /\ (RunsFromZeroToOne(mixer_curve_) /\ GivenFlow = Zero)
         => issued = <<pos_closed_>>
    /\ (RunsFromZeroToOne(mixer_curve_) /\ GivenFlow = One)
         => issued = <<pos_open_>>

\* control_valve(0.25) has run with closed = -180, open = -270 and no curve:
\* -202.5 is commanded as -202
C4_Witness ==
  /\ IsSetFlow
  /\ GivenFlow = Rat(1, 4)
  /\ mixer_curve_ = <<>>
  /\ pos_closed_ = -180 /\ pos_open_ = -270
  /\ ScaledPosition = Rat(-405, 2)
  /\ issued = <<-202>>

\* max(1, floor(|open - closed| * 0.001))
Tol ==
  LET t == Abs(pos_open_ - pos_closed_) \div 1000
  IN  IF t >= 1 THEN t ELSE 1

AtClosed == Abs(current_position - pos_closed_) < Tol

AtOpen == Abs(current_position - pos_open_) < Tol

\* the points of the curve rise strictly in x and in y
StrictlyIncreasing(curve) ==
  \A i \in 1..(Len(curve) - 1) :
    FLt(curve[i].x, curve[i + 1].x) /\ FLt(curve[i].y, curve[i + 1].y)

\* the empty curve, or one that rises strictly from (0,0)
RisesFromOrigin(curve) ==
  \/ curve = <<>>
  \/ /\ Len(curve) >= 2
     /\ curve[1] = CurvePoint(Zero, Zero)
     /\ StrictlyIncreasing(curve)

\* the snapping of get_valve_state: 0.0 within tol of closed, else 1.0 within
\* tol of open, whatever the curve
SnapsToEnds ==
  /\ AtClosed => ret = <<Zero>>
  /\ (~AtClosed /\ AtOpen) => ret = <<One>>
  /\ current_position = pos_closed_ => ret = <<Zero>>
  /\ (current_position = pos_open_ /\ pos_open_ # pos_closed_)
       => ret = <<One>>
  /\ (pos_closed_ = 0 /\ pos_open_ = 10000 /\ current_position = 5)
       => ret = <<Zero>>

AtFifteenOfTenThousand ==
  pos_closed_ = 0 /\ pos_open_ = 10000 /\ current_position = 15

\* C5 as stated: the snapping, and with closed = 0, open = 10000 position 15
\* reads a nonzero value, whatever the curve
C5_SnapAndFifteenNonzero ==
  IsRead => /\ SnapsToEnds
            /\ AtFifteenOfTenThousand => ret # <<Zero>>

\* C5 amended: the snapping; with closed = 0, open = 10000 position 15 is
\* not snapped: it reads the curve's flow at 15/10000, which is nonzero for
\* the empty curve and for a curve rising strictly from (0,0)
C5_SnapToEnds ==
  IsRead =>
    /\ SnapsToEnds
    /\ AtFifteenOfTenThousand
         => /\ ret = <<get_flow(Rat(15, 10000), mixer_curve_)>>
            /\ RisesFromOrigin(mixer_curve_) => ret # <<Zero>>

\* get_valve_state has run at position 5 of 0..10000 under the curve (1,1),
\* which maps every position to flow 1: it returned 0.0
C5_Witness ==
  /\ IsRead
  /\ pos_closed_ = 0 /\ pos_open_ = 10000
  /\ current_position = 5
  /\ mixer_curve_ = <<CurvePoint(One, One)>>
  /\ get_flow(Rat(5, 10000), mixer_curve_) = One
  /\ ret = <<Zero>>

\* C6: get_valve_state returns a value in [0, 1] for every position, every
\* pair of closed and open and every curve add_curve_point builds
C6_ReadFlowInUnitInterval ==
  IsRead => FLe(Zero, ret[1]) /\ FLe(ret[1], One)

----------------------------------------------------------------------------
(* Properties of get_flow and get_pos, checked under SpecCurve *)

FAbs(a) == IF FLt(a, Zero) THEN FNeg(a) ELSE a

\* a and b differ by less than 1e-5
Near(a, b) == FLt(FAbs(FSub(a, b)), Rat(1, 100000))

\* v lies between the first and the last of the coordinates lo and hi
Within(v, lo, hi) == FLe(lo, v) /\ FLe(v, hi)

FirstPt == mixer_curve_[1]

LastPt == mixer_curve_[Len(mixer_curve_)]

\* the argument of the last curve evaluation, and a point of the curve has it
Given == call.position[1]

IsKnotX == \E i \in 1..Len(mixer_curve_) : mixer_curve_[i].x = Given

IsKnotY == \E i \in 1..Len(mixer_curve_) : mixer_curve_[i].y = Given

C10_Monotonic ==
  (StrictlyIncreasing(mixer_curve_)
     /\ call.op \in {"get_flow_step", "get_pos_step"})
    => FLe(ret[1], ret[2])

\* get_flow was sampled at 0.50, the inner point of (0,0),(0.5,0.25),(1,1),
\* and at 0.55 in the next segment
C10_Witness ==
  /\ call.op = "get_flow_step"
  /\ mixer_curve_ = <<CurvePoint(Zero, Zero), CurvePoint(Half, Rat(1, 4)),
                      CurvePoint(One, One)>>
  /\ Given = Rat(11, 20)
  /\ ret[1] = Rat(1, 4)
  /\ FLt(ret[1], ret[2])

----------------------------------------------------------------------------
(* Degenerate segments, checked under SpecCurve *)

\* the curve's x (y) never falls from one point to the next
AscendingX(curve) ==
  \A i \in 1..(Len(curve) - 1) : FLe(curve[i].x, curve[i + 1].x)

AscendingY(curve) ==
  \A i \in 1..(Len(curve) - 1) : FLe(curve[i].y, curve[i + 1].y)

\* the last get_flow (get_pos) of a round trip's first leg divided by zero
FlowDividesByZero == Zero \in get_flow_divisors(Given, mixer_curve_)

PosDividesByZero == Zero \in get_pos_divisors(Given, mixer_curve_)

\* get_flow at the x of a zero-width segment returned the segment's start y
FlowReturnsSegmentStart ==
  \A i \in 1..(Len(mixer_curve_) - 1) :
    (mixer_curve_[i].x = mixer_curve_[i + 1].x /\ Given = mixer_curve_[i].x)
      => ret[1] = mixer_curve_[i].y

\* get_pos at the y of a flat segment returned the segment's start x
PosReturnsSegmentStart ==
  \A i \in 1..(Len(mixer_curve_) - 1) :
    (mixer_curve_[i].y = mixer_curve_[i + 1].y /\ Given = mixer_curve_[i].y)
      => ret[1] = mixer_curve_[i].x

\* C11: under a curve ascending in x and y, get_flow never divides by a zero
\* x1 - x0 and at the x of a zero-width segment returns that segment's start
\* y; get_pos never divides by a zero y1 - y0 and at the y of a flat segment
\* returns that segment's start x
C11_DegenerateSegmentsGuarded ==
  (AscendingX(mixer_curve_) /\ AscendingY(mixer_curve_)) =>
    /\ call.op = "pos_flow_pos"
         => (~FlowDividesByZero /\ FlowReturnsSegmentStart)
    /\ call.op = "flow_pos_flow"
         => (~PosDividesByZero /\ PosReturnsSegmentStart)

\* the part of C11 that the loops' order of tests gives for every curve: no
\* interpolation divides by zero
C11_NoZeroDivisor ==
  /\ call.op = "pos_flow_pos" => ~FlowDividesByZero
  /\ call.op = "flow_pos_flow" => ~PosDividesByZero

----------------------------------------------------------------------------
(* Zero-width actuator range, checked under SpecFlow *)

\* the last get_valve_state divided by a zero range
ReadDividesByZero ==
  0 \in get_valve_state_divisors(current_position, pos_closed_, pos_open_)

\* C12: when pos_open_ = pos_closed_ the tolerance is 1, get_valve_state does
\* not divide by the zero range, and it returns 0.0 whatever current_position
\* is
C12_ZeroRangeReadsClosed ==
  (IsRead /\ pos_open_ = pos_closed_) =>
    /\ Tol = 1
    /\ ~ReadDividesByZero
    /\ ret[1] = Zero

----------------------------------------------------------------------------
(* The controller keeps no command state, checked under Spec *)

CommandOps ==
  {"control", "control_valve", "park_valve", "open_all_valve",
   "block_action", "open_all_action"}

\* what the call c issues, from the configuration, c and current_position
\* alone
IssuedFor(c) ==
  CASE c.op \in {"park_valve", "block_action"} -> {<<pos_block_>>}
    [] c.op \in {"open_all_valve", "open_all_action"} -> {<<pos_all_open_>>}
    [] c.op = "control_valve" -> SetFlowIssues(c.position[1])
    [] c.op = "control" ->
         IF c.stop THEN {<<>>}
         ELSE IF c.toggle # <<>>
              THEN SetFlowIssues(IF FLt(ReadFlow, Half) THEN One ELSE Zero)
         ELSE IF c.position # <<>> THEN SetFlowIssues(c.position[1])
         ELSE SetFlowIssues(Zero)
    [] OTHER -> {<<>>}

\* after a command the target is the value the command issued, and what it
\* issued is what the configuration, the call and current_position determine
LastIssuedWins ==
  call.op \in CommandOps =>
    /\ issued \in IssuedFor(call)
    /\ issued # <<>> => target_position = issued[Len(issued)]

\* a command step leaves the configuration, the curve and current_position
\* alone, leaves the target alone when it issues nothing, and issues what the
\* same command issued in the step before it, whatever target that left
CommandStepKeepsNoState ==
  call'.op \in CommandOps =>
    /\ UNCHANGED <<config, current_position>>
    /\ issued' = <<>> => target_position' = target_position
    /\ call' = call => issued' = issued

\* C13: the target is the value issued by the most recent call that issued
\* one; that value depends only on the configuration, the call's payload and
\* current_position, so a command repeated with current_position unchanged,
\* two Toggles in particular, commands the same target; no command changes
\* the coordinates, the curve or current_position
C13_NoCommandState ==
  /\ []LastIssuedWins
  /\ [][CommandStepKeepsNoState]_vars

\* a Toggle has run with the actuator at closed and open already pending, and
\* commanded open again
C13_Witness ==
  /\ IsToggle
  /\ pos_closed_ = -180 /\ pos_open_ = -270
  /\ current_position = -180
  /\ ret = <<Zero>>
  /\ issued = <<-270>>
  /\ target_position = -270

====
